---------------------------- MODULE Spec2Model ----------------------------
(***************************************************************************)
(* A model of the Telegram bot in src/main.py: the membership gate         *)
(* (is_user_member, restricted_handler), free-text routing                 *)
(* (keyword_handler), the two command handlers (cmd_price, cmd_news) and   *)
(* the two pipelines (fetch_prices, fetch_news).                           *)
(*                                                                         *)
(* Strings the code inspects character by character (message texts, price  *)
(* strings, headline titles and links) are sequences of one-character      *)
(* names: the Persian letters are spelled by name ("alef", "re", ...),     *)
(* "sp" is a blank, and a command word such as "/price" is one element.    *)
(* One update is handled at a time; pc is the handler's position.          *)
(***************************************************************************)
EXTENDS Integers, Sequences, FiniteSets, TLC

VARIABLES
    pc,         \* position of the handler that processes the current update
    text,       \* message.text of the current update
    flow,       \* the command handler called for this update: "none", "price", "news"
    member,     \* outcome of bot.get_chat_member for this update
    is_sub,     \* restricted_handler's local is_sub: "unset", "yes" or "no"
    sent,       \* the replies delivered to the chat for this update, in order
    loading,    \* the loading message: "none", "shown", "deleted", "delete_failed"
    deletes,    \* number of loading_msg.delete() calls made for this update
    calls,      \* invocations of fetch_prices / fetch_news for this update
    exc,        \* the exception of this update: "none", "caught" (an except block
                \* is entered), "handled" (its error reply was sent), "pending" (the
                \* except block raised, finally runs) or "escaped" (it left the handler)
    failed,     \* TRUE once a Telegram send of this update has raised
    current,    \* fetch_prices: the document's "current" section
    idx,        \* fetch_prices: position of the loop over PRICE_KEYS
    price_clean, \* fetch_prices: the local price_clean of the current pass
    value,      \* fetch_prices: the local value_num of the current pass
    result,     \* fetch_prices: the local dict result, as a sequence of entries
    prices,     \* cmd_price: what fetch_prices returned (<<>> until it returns)
    feeds,      \* fetch_news: what each feed URL answers
    src,        \* fetch_news: position of the loop over NEWS_FEEDS
    headlines,  \* fetch_news: the local list headlines
    items       \* cmd_news: what fetch_news returned

vars == <<pc, text, flow, member, is_sub, sent, loading, deletes, calls, exc, failed,
          current, idx, price_clean, value, result, prices,
          feeds, src, headlines, items>>

gateVars  == <<member, is_sub>>
priceVars == <<current, idx, price_clean, value, result, prices>>
newsVars  == <<feeds, src, headlines, items>>

-----------------------------------------------------------------------------
(* Bounds of the model. *)

\* A free-text message is a concatenation of at most MaxFrags fragments.
MaxFrags == 2
\* A feed document holds at most MaxItems <item> elements.
MaxItems == 4

-----------------------------------------------------------------------------
(* Strings as sequences of characters. *)

RECURSIVE Concat(_)
Concat(ss) == IF ss = <<>> THEN <<>> ELSE Head(ss) \o Concat(Tail(ss))

\* k in s
Contains(s, k) ==
    \E b \in 0..(Len(s) - Len(k)) : \A j \in 1..Len(k) : s[b + j] = k[j]

\* any(k in s for k in ks)
ContainsAny(s, ks) == \E n \in 1..Len(ks) : Contains(s, ks[n])

\* str.strip(): leading and trailing blanks removed
RECURSIVE LStrip(_)
LStrip(s) == IF s # <<>> /\ Head(s) = "sp" THEN LStrip(Tail(s)) ELSE s

RECURSIVE RStrip(_)
RStrip(s) ==
    IF s # <<>> /\ s[Len(s)] = "sp" THEN RStrip(SubSeq(s, 1, Len(s) - 1)) ELSE s

Strip(s) == RStrip(LStrip(s))

\* str.lower(): the Persian letters, digits and blanks have no case
LowerChar(c) == IF c = "H" THEN "h" ELSE c

Lower(s) == [n \in 1..Len(s) |-> LowerChar(s[n])]

-----------------------------------------------------------------------------
(* Configuration. *)

AKHBAR == <<"alef", "khe", "be", "alef", "re">>
AKHBAR_EQTESADI ==
    AKHBAR \o <<"sp", "alef", "qaf", "te", "sad", "alef", "dal", "ye">>
DOLLAR == <<"dal", "lam", "alef", "re">>
SEKKE  == <<"sin", "kaf", "he">>
TALA   == <<"ta", "lam", "alef">>
ARZ    == <<"alef", "re", "ze">>
QEYMAT == <<"qaf", "ye", "mim", "te">>
SALAM  == <<"sin", "lam", "alef", "mim">>

KEYWORD_TRIGGER_LIST == <<DOLLAR, SEKKE, TALA, ARZ, QEYMAT>>

\* PRICE_KEYS in declaration order: label -> JSON key
PRICE_KEYS ==
    << [label |-> "dollar", key |-> "price_dollar_rl"],
       [label |-> "sekke",  key |-> "sekee_real"],
       [label |-> "ons",    key |-> "ons"] >>

NEWS_FEEDS == <<"Tasnim", "ISNA", "IRNA">>

HEADLINES_PER_SOURCE == 3


-----------------------------------------------------------------------------
(* The updates the bot receives. *)

\* Fragments a free-text message is assembled from.
Frags == {AKHBAR, ARZ, SEKKE, SALAM, <<"sp">>, <<"ze">>, <<"H">>}

FragSeqs == UNION {[1..n -> Frags] : n \in 0..MaxFrags}

FreeTexts == {Concat(fs) : fs \in FragSeqs}

CommandWords == {"/start", "/price", "/news", "/help", "/other"}

\* A command alone, or followed by a blank and one keyword.
CommandTexts ==
    {<<c>> : c \in CommandWords}
        \cup {<<c, "sp">> \o f : c \in CommandWords, f \in {AKHBAR, ARZ}}

AllTexts == FreeTexts \cup CommandTexts

\* What bot.get_chat_member answers: a ChatMember status, or it raises.
Statuses == {"creator", "administrator", "member", "restricted", "left", "kicked"}
Lookups  == Statuses \cup {"Raised"}

-----------------------------------------------------------------------------
(* Replies. *)

Reply(kind, body) == [kind |-> kind, body |-> body]

Kinds(replies) == {replies[n].kind : n \in 1..Len(replies)}

-----------------------------------------------------------------------------
(* Dispatch: aiogram runs the first registered handler whose filter       *)
(* accepts the update.  A commands=[...] filter accepts a text whose first *)
(* word is one of the commands.                                            *)

IsCommand(t, cmds) ==
    /\ Len(t) >= 1
    /\ t[1] \in cmds
    /\ Len(t) > 1 => t[2] = "sp"

Dispatch(t) ==
    IF IsCommand(t, {"/start", "/price", "/news"}) THEN "rh_check"
    ELSE IF IsCommand(t, {"/help"}) THEN "help"
    ELSE "kw"

Fresh ==
    /\ flow = "none" /\ member = "Unchecked" /\ is_sub = "unset"
    /\ sent = <<>> /\ loading = "none" /\ deletes = 0
    /\ calls = [price |-> 0, news |-> 0]
    /\ exc = "none" /\ failed = FALSE
    /\ current = <<>> /\ idx = 0 /\ price_clean = <<>>
    /\ value = [kind |-> "fin", neg |-> FALSE, milli |-> 0] /\ result = <<>> /\ prices = <<>>
    /\ feeds = <<>> /\ src = 0 /\ headlines = <<>> /\ items = <<>>

Init == pc = "idle" /\ text = <<>> /\ Fresh

\* The dispatcher hands the next update to its handler.
Receive(Texts) ==
    /\ pc = "idle"
    /\ \E t \in Texts : text' = t /\ pc' = Dispatch(t)
    /\ UNCHANGED <<flow, sent, loading, deletes, calls, exc, failed>>
    /\ UNCHANGED <<gateVars, priceVars, newsVars>>

\* The handler has returned (or raised into the dispatcher, which logs it);
\* nothing of the update is kept.
Finish ==
    /\ pc = "done"
    /\ pc' = "idle" /\ text' = <<>>
    /\ flow' = "none" /\ member' = "Unchecked" /\ is_sub' = "unset"
    /\ sent' = <<>> /\ loading' = "none" /\ deletes' = 0
    /\ calls' = [price |-> 0, news |-> 0]
    /\ exc' = "none" /\ failed' = FALSE
    /\ current' = <<>> /\ idx' = 0 /\ price_clean' = <<>>
    /\ value' = [kind |-> "fin", neg |-> FALSE, milli |-> 0] /\ result' = <<>> /\ prices' = <<>>
    /\ feeds' = <<>> /\ src' = 0 /\ headlines' = <<>> /\ items' = <<>>

-----------------------------------------------------------------------------
(* The membership gate. *)

is_user_member_fail_open(m) ==
    IF m = "Raised" THEN TRUE
    ELSE m \in {"member", "creator", "administrator"}

is_user_member(m) ==
    IF m = "Raised" THEN FALSE
    ELSE m \in {"member", "creator", "administrator"}

\* restricted_handler, up to the membership decision
RestrictedCheck(Results) ==
    /\ pc = "rh_check"
    /\ \E m \in Results :
          /\ member' = m
          /\ is_sub' = IF is_user_member(m) THEN "yes" ELSE "no"
    /\ pc' = "rh_gate"
    /\ UNCHANGED <<text, flow, sent, loading, deletes, calls, exc, failed>>
    /\ UNCHANGED <<priceVars, newsVars>>

\* await message.answer(...): delivered, or the call raises out of the handler
AnswerAndReturn(kind) ==
    /\ \E ok \in BOOLEAN :
          IF ok
          THEN sent' = Append(sent, Reply(kind, <<>>)) /\ UNCHANGED <<exc, failed>>
          ELSE exc' = "escaped" /\ failed' = TRUE /\ UNCHANGED sent
    /\ pc' = "done"
    /\ UNCHANGED <<text, flow, loading, deletes, calls, gateVars, priceVars, newsVars>>

\* restricted_handler: if not is_sub
RestrictedDenied ==
    /\ pc = "rh_gate" /\ is_sub = "no"
    /\ AnswerAndReturn("join")

\* restricted_handler: the if / elif chain on message.text
RestrictedStart ==
    /\ pc = "rh_gate" /\ is_sub = "yes" /\ text = <<"/start">>
    /\ AnswerAndReturn("welcome")

RestrictedRoute ==
    /\ pc = "rh_gate" /\ is_sub = "yes" /\ text # <<"/start">>
    /\ pc' = IF text = <<"/price">> THEN "cp_loading"
             ELSE IF text = <<"/news">> THEN "cn_loading"
             ELSE "done"
    /\ flow' = IF text = <<"/price">> THEN "price"
               ELSE IF text = <<"/news">> THEN "news"
               ELSE "none"
    /\ UNCHANGED <<text, sent, loading, deletes, calls, exc, failed>>
    /\ UNCHANGED <<gateVars, priceVars, newsVars>>

CmdHelp ==
    /\ pc = "help"
    /\ AnswerAndReturn("help")

-----------------------------------------------------------------------------
(* Free-text routing. *)

lowered(t) == Lower(Strip(t))

IsNewsText(t) ==
    Contains(lowered(t), AKHBAR) \/ Contains(lowered(t), AKHBAR_EQTESADI)

IsPriceText(t) == ContainsAny(lowered(t), KEYWORD_TRIGGER_LIST)

KeywordRoutePriceFirst(t) ==
    IF IsPriceText(t) THEN "cp_loading"
    ELSE IF IsNewsText(t) THEN "cn_loading"
    ELSE "unknown"

KeywordRoute(t) ==
    IF IsNewsText(t) THEN "cn_loading"
    ELSE IF IsPriceText(t) THEN "cp_loading"
    ELSE "unknown"

\* keyword_handler: defers to cmd_news or cmd_price and returns
KeywordHandler ==
    /\ pc = "kw" /\ KeywordRoute(text) # "unknown"
    /\ pc' = KeywordRoute(text)
    /\ flow' = IF KeywordRoute(text) = "cn_loading" THEN "news" ELSE "price"
    /\ UNCHANGED <<text, sent, loading, deletes, calls, exc, failed>>
    /\ UNCHANGED <<gateVars, priceVars, newsVars>>

\* keyword_handler: the default reply
KeywordUnknown ==
    /\ pc = "kw" /\ KeywordRoute(text) = "unknown"
    /\ AnswerAndReturn("unrecognized")

-----------------------------------------------------------------------------
(* Numbers.  A float is [kind, neg, milli]: kind "fin" with magnitude      *)
(* milli/1000 and sign neg, or "inf" or "nan".  Price strings carry at     *)
(* most two decimals, so the division by 10 is exact at this precision.    *)

DigitChars == <<"0", "1", "2", "3", "4", "5", "6", "7", "8", "9">>

IsDigit(c) == \E n \in 1..10 : DigitChars[n] = c

DigitVal(c) == (CHOOSE n \in 1..10 : DigitChars[n] = c) - 1

\* the number written by the first k digits of ds
RECURSIVE NumUpTo(_, _)
NumUpTo(ds, k) ==
    IF k = 0 THEN 0 ELSE 10 * NumUpTo(ds, k - 1) + DigitVal(ds[k])

Num(ds) == NumUpTo(ds, Len(ds))

RECURSIVE DigitsOf(_)
DigitsOf(n) ==
    IF n < 10 THEN <<DigitChars[n + 1]>>
    ELSE Append(DigitsOf(n \div 10), DigitChars[(n % 10) + 1])

Fin(neg, milli) == [kind |-> "fin", neg |-> neg, milli |-> milli]

\* price_str.replace(",", "")
RemoveCommas(s) == SelectSeq(s, LAMBDA c : c # ",")

\* float(s): [ok |-> FALSE] stands for ValueError
float(s) ==
    LET t      == Strip(s)
        signed == t # <<>> /\ Head(t) \in {"-", "+"}
        neg    == t # <<>> /\ Head(t) = "-"
        body   == IF signed THEN Tail(t) ELSE t
        dots   == {n \in 1..Len(body) : body[n] = "."}
        dot    == CHOOSE n \in dots : TRUE
        ip     == IF dots = {} THEN body ELSE SubSeq(body, 1, dot - 1)
        fp     == IF dots = {} THEN <<>> ELSE SubSeq(body, dot + 1, Len(body))
        fp3    == SubSeq(fp \o <<"0", "0", "0">>, 1, 3)
    IN  IF body = <<"i", "n", "f">>
        THEN [ok |-> TRUE, v |-> [kind |-> "inf", neg |-> neg, milli |-> 0]]
        ELSE IF body = <<"n", "a", "n">>
        THEN [ok |-> TRUE, v |-> [kind |-> "nan", neg |-> neg, milli |-> 0]]
        ELSE IF /\ Cardinality(dots) <= 1
                /\ Len(ip) + Len(fp) >= 1
                /\ \A n \in 1..Len(ip) : IsDigit(ip[n])
                /\ \A n \in 1..Len(fp) : IsDigit(fp[n])
        THEN [ok |-> TRUE, v |-> Fin(neg, 1000 * Num(ip) + Num(fp3))]
        ELSE [ok |-> FALSE, v |-> Fin(FALSE, 0)]

\* value_num /= 10
Div10(v) == IF v.kind = "fin" THEN [v EXCEPT !.milli = v.milli \div 10] ELSE v

\* v < 0
Negative(v) == v.kind # "nan" /\ v.neg /\ (v.kind = "inf" \/ v.milli > 0)

\* the grouping of the "," format option
RECURSIVE Group(_)
Group(ds) ==
    IF Len(ds) <= 3 THEN ds
    ELSE Group(SubSeq(ds, 1, Len(ds) - 3))
             \o <<",">> \o SubSeq(ds, Len(ds) - 2, Len(ds))

\* f"{value_num:,.2f}"
FormatFixed2(v) ==
    LET h    == (v.milli + 5) \div 10
        sign == IF v.neg THEN <<"-">> ELSE <<>>
        frac == <<DigitChars[((h \div 10) % 10) + 1], DigitChars[(h % 10) + 1]>>
    IN  IF v.kind = "inf" THEN sign \o <<"i", "n", "f">>
        ELSE IF v.kind = "nan" THEN <<"n", "a", "n">>
        ELSE sign \o Group(DigitsOf(h \div 100)) \o <<".">> \o frac

\* int(value_num) raises OverflowError for inf and ValueError for nan
IntRaises(v) == v.kind # "fin"

\* f"{int(value_num):,}": int() truncates toward zero
FormatInt(v) ==
    LET n == v.milli \div 1000
    IN  (IF v.neg /\ n > 0 THEN <<"-">> ELSE <<>>) \o Group(DigitsOf(n))

-----------------------------------------------------------------------------
(* Timestamps.  An upstream ts string is [form, wall, off]: an ISO string  *)
(* without offset ("naive"), one with an offset ("aware"), or one that     *)
(* datetime.fromisoformat rejects ("junk").  A datetime is                 *)
(* [aware, wall, off], in minutes.                                         *)

\* the wall clock, in minutes
Now == 1000

UtcNow == [aware |-> TRUE, wall |-> Now, off |-> 0]

FromIsoRaises(ts) == ts.form = "junk"

fromisoformat(ts) == [aware |-> ts.form = "aware", wall |-> ts.wall, off |-> ts.off]

Instant(d) == d.wall - d.off

\* max() over datetimes raises TypeError when naive and aware values meet
MaxRaises(ds) == \E m, n \in 1..Len(ds) : ds[m].aware # ds[n].aware

MaxOf(ds) ==
    ds[CHOOSE m \in 1..Len(ds) :
          /\ \A n \in 1..Len(ds) : Instant(ds[n]) <= Instant(ds[m])
          /\ \A n \in 1..(m - 1) : Instant(ds[n]) < Instant(ds[m])]

format_time_difference(past) ==
    LET p    == IF past.aware THEN past ELSE [past EXCEPT !.aware = TRUE, !.off = 0]
        diff == Now - Instant(p)
    IN  IF diff < 1 THEN [unit |-> "moments", n |-> 0]
        ELSE IF diff < 60 THEN [unit |-> "minutes", n |-> diff]
        ELSE [unit |-> "hours", n |-> diff \div 60]

-----------------------------------------------------------------------------
(* The price upstream.  An entry of the "current" section is              *)
(* [absent, keys, p, ts]: no entry under the key (absent), or a dict with  *)
(* the sub-fields named by keys.                                           *)

JsonKeys == {PRICE_KEYS[n].key : n \in 1..Len(PRICE_KEYS)}

NaiveTs == [form |-> "naive", wall |-> 990, off |-> 0]
AwareTs == [form |-> "aware", wall |-> 1150, off |-> 210]
JunkTs  == [form |-> "junk", wall |-> 0, off |-> 0]

TsStrings == {NaiveTs, AwareTs, JunkTs}

P_1234560 == <<"1", ",", "2", "3", "4", ",", "5", "6", "0">>
P_1950_55 == <<"1", ",", "9", "5", "0", ".", "5", "5">>
P_Minus5  == <<"-", "5">>
P_Garbage == <<"x">>
P_Inf     == <<"i", "n", "f">>

PriceStrings == {P_1234560, P_1950_55, P_Minus5, P_Garbage, P_Inf}

Entry(keys, p, ts) == [absent |-> FALSE, keys |-> keys, p |-> p, ts |-> ts]

AbsentEntry == [absent |-> TRUE, keys |-> {}, p |-> <<>>, ts |-> JunkTs]

BrokenEntries ==
    {AbsentEntry, Entry({}, <<>>, JunkTs),
     Entry({"p"}, P_1234560, JunkTs), Entry({"ts"}, <<>>, NaiveTs)}

FullEntries(ps, tss) == {Entry({"p", "ts"}, p, ts) : p \in ps, ts \in tss}

\* fetch_json answered with a document, or raised
Response(entries) ==
    {[ok |-> TRUE, current |-> c] : c \in [JsonKeys -> entries]}
        \cup {[ok |-> FALSE, current |-> [k \in JsonKeys |-> AbsentEntry]]}

RichDocs == Response(BrokenEntries \cup FullEntries(PriceStrings, TsStrings))

SmallDocs == Response({AbsentEntry} \cup FullEntries({P_1234560}, {NaiveTs, JunkTs}))

-----------------------------------------------------------------------------
(* fetch_prices. *)

\* a missing-data check that only tests "not entry"
MissingDataOnlyEmpty(entry) == entry.absent \/ entry.keys = {}

\* if not entry or "p" not in entry or "ts" not in entry
MissingData(entry) ==
    entry.absent \/ entry.keys = {} \/ "p" \notin entry.keys \/ "ts" \notin entry.keys

\* entry.get("p", "0")
price_str(entry) == IF "p" \in entry.keys THEN entry.p ELSE <<"0">>

\* float() with its ValueError fallback, and the division by 10
value_num(pk, clean) ==
    LET parsed == float(clean)
        v      == IF parsed.ok THEN parsed.v ELSE Fin(FALSE, 0)
    IN  IF pk.key # "ons" THEN Div10(v) ELSE v

\* formatting raises when int() does
FormatRaises(pk, v) == pk.key # "ons" /\ IntRaises(v)

formatted_value(pk, v) ==
    IF pk.key = "ons" THEN FormatFixed2(v) ELSE FormatInt(v)

\* datetime.fromisoformat(entry.get("ts")), or now when that raises (a
\* missing ts is None, which raises TypeError)
timestamp(entry) ==
    IF "ts" \notin entry.keys \/ FromIsoRaises(entry.ts) THEN UtcNow
    ELSE fromisoformat(entry.ts)

\* result[label] = (formatted_value, timestamp); num is the local value_num
Quote(pk, entry, v) ==
    [label |-> pk.label, value |-> formatted_value(pk, v),
     ts |-> timestamp(entry), num |-> v]

\* cmd_price: await message.answer(loading text)
CmdPriceLoading ==
    /\ pc = "cp_loading"
    /\ \E ok \in BOOLEAN :
          IF ok
          THEN /\ sent' = Append(sent, Reply("loading_price", <<>>))
               /\ loading' = "shown" /\ pc' = "cp_fetch"
               /\ UNCHANGED <<exc, failed>>
          ELSE /\ exc' = "escaped" /\ failed' = TRUE /\ pc' = "done"
               /\ UNCHANGED <<sent, loading>>
    /\ UNCHANGED <<text, flow, deletes, calls, gateVars, priceVars, newsVars>>

\* fetch_prices is called; fetch_json answers or raises
FetchJson(Docs) ==
    /\ pc = "cp_fetch"
    /\ calls' = [calls EXCEPT !.price = @ + 1]
    /\ \E d \in Docs :
          IF d.ok
          THEN /\ current' = d.current /\ idx' = 1 /\ result' = <<>>
               /\ pc' = "fp_loop" /\ UNCHANGED exc
          ELSE /\ pc' = "cp_except" /\ exc' = "caught"
               /\ UNCHANGED <<current, idx, result>>
    /\ UNCHANGED <<text, flow, sent, loading, deletes, failed, price_clean, value, prices>>
    /\ UNCHANGED <<gateVars, newsVars>>

\* the head of the loop body: the entry is looked up and checked, and the
\* commas are taken out of its price string
FetchPricesEntry ==
    /\ pc = "fp_loop" /\ idx <= Len(PRICE_KEYS)
    /\ LET pk    == PRICE_KEYS[idx]
           entry == current[pk.key]
       IN  IF MissingData(entry)
           THEN pc' = "cp_except" /\ exc' = "caught" /\ UNCHANGED price_clean
           ELSE /\ price_clean' = RemoveCommas(price_str(entry))
                /\ pc' = "fp_parse" /\ UNCHANGED exc
    /\ UNCHANGED <<text, flow, sent, loading, deletes, calls, failed>>
    /\ UNCHANGED <<current, idx, value, result, prices, gateVars, newsVars>>

\* value_num = float(price_clean), 0.0 on ValueError, a tenth unless "ons"
FetchPricesParse ==
    /\ pc = "fp_parse"
    /\ value' = value_num(PRICE_KEYS[idx], price_clean)
    /\ pc' = "fp_format"
    /\ UNCHANGED <<text, flow, sent, loading, deletes, calls, exc, failed>>
    /\ UNCHANGED <<current, idx, price_clean, result, prices, gateVars, newsVars>>

\* the rest of the loop body: the value is formatted, the timestamp parsed
\* and the pair stored under the label
FetchPricesFormat ==
    /\ pc = "fp_format"
    /\ LET pk    == PRICE_KEYS[idx]
           entry == current[pk.key]
       IN  IF FormatRaises(pk, value)
           THEN /\ pc' = "cp_except" /\ exc' = "caught"
                /\ UNCHANGED <<idx, result>>
           ELSE /\ result' = Append(result, Quote(pk, entry, value))
                /\ idx' = idx + 1
                /\ pc' = "fp_loop" /\ UNCHANGED exc
    /\ UNCHANGED <<text, flow, sent, loading, deletes, calls, failed>>
    /\ UNCHANGED <<current, price_clean, value, prices, gateVars, newsVars>>

\* return server_time, result
FetchPricesReturn ==
    /\ pc = "fp_loop" /\ idx > Len(PRICE_KEYS)
    /\ prices' = result
    /\ pc' = "cp_render"
    /\ UNCHANGED <<text, flow, sent, loading, deletes, calls, exc, failed>>
    /\ UNCHANGED <<current, idx, price_clean, value, result, gateVars, newsVars>>

Stamps(ps) == [n \in 1..Len(ps) |-> ps[n].ts]

Lines(ps) ==
    [n \in 1..Len(ps) |->
        [label |-> ps[n].label, value |-> ps[n].value,
         unit |-> IF ps[n].label = "ons" THEN "dollar" ELSE "toman"]]

\* cmd_price: the response is built and sent
CmdPriceRender ==
    /\ pc = "cp_render"
    /\ IF MaxRaises(Stamps(prices))
       THEN pc' = "cp_except" /\ exc' = "caught" /\ UNCHANGED <<sent, failed>>
       ELSE \E ok \in BOOLEAN :
              IF ok
              THEN /\ sent' = Append(sent,
                          Reply("price_result",
                                <<Lines(prices),
                                  format_time_difference(MaxOf(Stamps(prices)))>>))
                   /\ pc' = "cp_finally" /\ UNCHANGED <<exc, failed>>
              ELSE /\ pc' = "cp_except" /\ exc' = "caught" /\ failed' = TRUE
                   /\ UNCHANGED sent
    /\ UNCHANGED <<text, flow, loading, deletes, calls, gateVars, priceVars, newsVars>>

\* except Exception: the error reply is sent; if that raises too, the
\* exception leaves the handler once the finally block has run
CmdExcept(at, kind, finally) ==
    /\ pc = at
    /\ \E ok \in BOOLEAN :
          IF ok
          THEN /\ sent' = Append(sent, Reply(kind, <<>>))
               /\ exc' = "handled" /\ UNCHANGED failed
          ELSE exc' = "pending" /\ failed' = TRUE /\ UNCHANGED sent
    /\ pc' = finally
    /\ UNCHANGED <<text, flow, loading, deletes, calls, gateVars, priceVars, newsVars>>

\* the deletion as the last statement of the try block
CmdFinallyOnSuccess(at) ==
    /\ pc = at
    /\ IF exc = "none"
       THEN /\ deletes' = deletes + 1
            /\ \E ok \in BOOLEAN : loading' = IF ok THEN "deleted" ELSE "delete_failed"
       ELSE UNCHANGED <<deletes, loading>>
    /\ exc' = IF exc = "pending" THEN "escaped" ELSE exc
    /\ pc' = "done"
    /\ UNCHANGED <<text, flow, sent, calls, failed, gateVars, priceVars, newsVars>>

\* finally: try: await loading_msg.delete() except Exception: pass
CmdFinally(at) ==
    /\ pc = at
    /\ deletes' = deletes + 1
    /\ \E ok \in BOOLEAN : loading' = IF ok THEN "deleted" ELSE "delete_failed"
    /\ exc' = IF exc = "pending" THEN "escaped" ELSE exc
    /\ pc' = "done"
    /\ UNCHANGED <<text, flow, sent, calls, failed, gateVars, priceVars, newsVars>>

CmdPriceExcept == CmdExcept("cp_except", "price_error", "cp_finally")

CmdPriceFinally == CmdFinally("cp_finally")

-----------------------------------------------------------------------------
(* The news upstreams.  A feed answers [status, items]: status "ok" with   *)
(* the document's <item> elements, or the failure of the GET               *)
(* ("fetch_error"), of raise_for_status ("http_error") or of the XML       *)
(* parser ("parse_error").  An item is [has_title, title, has_link, link]. *)

BANK == <<"be", "alef", "nun", "kaf">>

economy_keywords ==
    << <<"alef", "qaf", "te", "sad", "alef", "dal">>,
       <<"alef", "qaf", "te", "sad", "alef", "dal", "ye">>,
       BANK, ARZ, <<"pe", "vav", "lam">>, <<"be", "vav", "re", "sin">>,
       SEKKE, DOLLAR >>

Item(title, link) ==
    [has_title |-> TRUE, title |-> title, has_link |-> TRUE, link |-> link]

\* an economic headline, padded with blanks
ItemM(s) == Item(<<"sp">> \o BANK, <<s, "m", "sp">>)
\* a headline without any economic keyword
ItemN(s) == Item(SALAM, <<s, "n">>)
\* a blank <title>
ItemE(s) == Item(<<"sp">>, <<s, "e">>)
\* an empty <link>
ItemL(s) == Item(DOLLAR, <<>>)
\* no <link> element at all
ItemX(s) == [has_title |-> TRUE, title |-> BANK, has_link |-> FALSE, link |-> <<>>]

ItemKinds(s) == {ItemM(s), ItemN(s), ItemE(s), ItemL(s), ItemX(s)}

FeedFailures == {[status |-> st, items |-> <<>>] :
                    st \in {"fetch_error", "http_error", "parse_error"}}

FeedOk(its) == [status |-> "ok", items |-> its]

\* every document of at most MaxItems items
RichFeeds(s) ==
    FeedFailures
        \cup {FeedOk(its) : its \in UNION {[1..n -> ItemKinds(s)] : n \in 0..MaxItems}}

SmallFeeds(s) ==
    {[status |-> "fetch_error", items |-> <<>>], FeedOk(<<>>),
     FeedOk(<<ItemM(s), ItemN(s)>>)}

Combos(A, B, C) ==
    {[Tasnim |-> a, ISNA |-> b, IRNA |-> c] : a \in A, b \in B, c \in C}

SmallCombos == Combos(SmallFeeds("Tasnim"), SmallFeeds("ISNA"), SmallFeeds("IRNA"))

\* a failing feed, or a document longer than HEADLINES_PER_SOURCE
PoorFeeds(s) ==
    {[status |-> "fetch_error", items |-> <<>>],
     FeedOk(<<ItemM(s), ItemN(s), ItemM(s), ItemM(s)>>)}

\* the feed rich ranges over every document, the other two over a few
FeedsOf(rich, s) == IF s = rich THEN RichFeeds(s) ELSE PoorFeeds(s)

RichCombos(rich) ==
    Combos(FeedsOf(rich, "Tasnim"), FeedsOf(rich, "ISNA"), FeedsOf(rich, "IRNA"))

-----------------------------------------------------------------------------
(* fetch_news. *)

Min(a, b) == IF a <= b THEN a ELSE b

\* xs[:n]
Take(xs, n) == SubSeq(xs, 1, Min(Len(xs), n))

\* for item in items: ... ; an exception ends the loop
RECURSIVE ItemLoop(_, _)
ItemLoop(source, its) ==
    IF its = <<>> THEN <<>>
    ELSE LET it == Head(its)
         IN  IF ~it.has_title \/ ~it.has_link THEN <<>>
             ELSE IF source = "IRNA" /\ ~ContainsAny(Strip(it.title), economy_keywords)
             THEN ItemLoop(source, Tail(its))
             ELSE <<[title |-> Strip(it.title), link |-> Strip(it.link)]>>
                      \o ItemLoop(source, Tail(its))

\* what one pass of for source, url in NEWS_FEEDS.items() appends
SourceHeadlines(source, response) ==
    IF response.status # "ok" THEN <<>>
    ELSE ItemLoop(source, Take(response.items, HEADLINES_PER_SOURCE))

CmdNewsLoading ==
    /\ pc = "cn_loading"
    /\ \E ok \in BOOLEAN :
          IF ok
          THEN /\ sent' = Append(sent, Reply("loading_news", <<>>))
               /\ loading' = "shown" /\ pc' = "cn_fetch"
               /\ UNCHANGED <<exc, failed>>
          ELSE /\ exc' = "escaped" /\ failed' = TRUE /\ pc' = "done"
               /\ UNCHANGED <<sent, loading>>
    /\ UNCHANGED <<text, flow, deletes, calls, gateVars, priceVars, newsVars>>

\* fetch_news is called; feeds is what the three GETs of this call answer
FetchNewsStart(FeedCombos) ==
    /\ pc = "cn_fetch"
    /\ calls' = [calls EXCEPT !.news = @ + 1]
    /\ feeds' \in FeedCombos
    /\ src' = 1 /\ headlines' = <<>>
    /\ pc' = "fn_loop"
    /\ UNCHANGED <<text, flow, sent, loading, deletes, exc, failed, items>>
    /\ UNCHANGED <<gateVars, priceVars>>

\* the try/except around the whole loop: the first failing feed ends it
FetchNewsSourceUnguarded ==
    /\ pc = "fn_loop" /\ src <= Len(NEWS_FEEDS)
    /\ IF feeds[NEWS_FEEDS[src]].status # "ok"
       THEN src' = Len(NEWS_FEEDS) + 1 /\ UNCHANGED headlines
       ELSE /\ headlines' = headlines
                    \o SourceHeadlines(NEWS_FEEDS[src], feeds[NEWS_FEEDS[src]])
            /\ src' = src + 1
    /\ UNCHANGED <<pc, text, flow, sent, loading, deletes, calls, exc, failed, feeds, items>>
    /\ UNCHANGED <<gateVars, priceVars>>

\* one pass of for source, url in NEWS_FEEDS.items(), its try/except included
FetchNewsSource ==
    /\ pc = "fn_loop" /\ src <= Len(NEWS_FEEDS)
    /\ headlines' = headlines \o SourceHeadlines(NEWS_FEEDS[src], feeds[NEWS_FEEDS[src]])
    /\ src' = src + 1
    /\ UNCHANGED <<pc, text, flow, sent, loading, deletes, calls, exc, failed, feeds, items>>
    /\ UNCHANGED <<gateVars, priceVars>>

\* return headlines[: HEADLINES_PER_SOURCE * len(NEWS_FEEDS)]
FetchNewsReturn ==
    /\ pc = "fn_loop" /\ src > Len(NEWS_FEEDS)
    /\ items' = Take(headlines, HEADLINES_PER_SOURCE * Len(NEWS_FEEDS))
    /\ pc' = "cn_render"
    /\ UNCHANGED <<text, flow, sent, loading, deletes, calls, exc, failed>>
    /\ UNCHANGED <<feeds, src, headlines, gateVars, priceVars>>

\* cmd_news: the empty notice or the numbered list is sent
CmdNewsRender ==
    /\ pc = "cn_render"
    /\ \E ok \in BOOLEAN :
          IF ok
          THEN /\ sent' = Append(sent,
                      IF items = <<>> THEN Reply("news_empty", <<>>)
                      ELSE Reply("news_result", items))
               /\ pc' = "cn_finally" /\ UNCHANGED <<exc, failed>>
          ELSE /\ pc' = "cn_except" /\ exc' = "caught" /\ failed' = TRUE
               /\ UNCHANGED sent
    /\ UNCHANGED <<text, flow, loading, deletes, calls, gateVars, priceVars, newsVars>>

CmdNewsExcept == CmdExcept("cn_except", "news_error", "cn_finally")

CmdNewsFinally == CmdFinally("cn_finally")

-----------------------------------------------------------------------------
(* Specifications. *)

Gate(Results) ==
    \/ RestrictedCheck(Results)
    \/ RestrictedDenied
    \/ RestrictedRoute

PriceFlow(Docs) ==
    \/ CmdPriceLoading
    \/ FetchJson(Docs)
    \/ FetchPricesEntry
    \/ FetchPricesParse
    \/ FetchPricesFormat
    \/ FetchPricesReturn
    \/ CmdPriceRender
    \/ CmdPriceExcept
    \/ CmdPriceFinally

NewsFlow(FeedCombos) ==
    \/ CmdNewsLoading
    \/ FetchNewsStart(FeedCombos)
    \/ FetchNewsSource
    \/ FetchNewsReturn
    \/ CmdNewsRender
    \/ CmdNewsExcept
    \/ CmdNewsFinally

\* The bot: any update, any membership answer, a few upstream answers.
Next ==
    \/ Receive(AllTexts)
    \/ Finish
    \/ Gate(Lookups)
    \/ RestrictedStart
    \/ CmdHelp
    \/ KeywordHandler
    \/ KeywordUnknown
    \/ PriceFlow(SmallDocs)
    \/ NewsFlow(SmallCombos)

Spec == Init /\ [][Next]_vars

\* Every await of a handler returns or raises, so a handler always goes on.
FairSpec == Spec /\ WF_vars(Next)

\* /price from a member or a non-member, over every upstream document.
NextPrice ==
    \/ Receive({<<"/price">>})
    \/ Finish
    \/ Gate({"member", "left"})
    \/ PriceFlow(RichDocs)

SpecPrice == Init /\ [][NextPrice]_vars

\* fetch_news alone, called by cmd_news for a member's /news, over the
\* feed combinations.
InitNews ==
    /\ pc = "fn_loop" /\ text = <<"/news">> /\ flow = "news"
    /\ member = "member" /\ is_sub = "yes"
    /\ sent = <<Reply("loading_news", <<>>)>> /\ loading = "shown" /\ deletes = 0
    /\ calls = [price |-> 0, news |-> 1]
    /\ exc = "none" /\ failed = FALSE
    /\ current = <<>> /\ idx = 0 /\ price_clean = <<>>
    /\ value = [kind |-> "fin", neg |-> FALSE, milli |-> 0] /\ result = <<>> /\ prices = <<>>
    /\ \E rich \in {"Tasnim", "ISNA", "IRNA"} : feeds \in RichCombos(rich)
    /\ src = 1 /\ headlines = <<>> /\ items = <<>>

NextNews ==
    \/ FetchNewsSource
    \/ FetchNewsReturn

SpecNews == InitNews /\ [][NextNews]_vars

-----------------------------------------------------------------------------
(* Properties. *)

AllowedStatuses == {"member", "creator", "administrator"}

\* C1: a pipeline (fetch_prices or fetch_news) is invoked for an update only
\* after the membership lookup for its sender resulted in Allowed.
C1_PipelineOnlyAfterAllowed ==
    (calls.price > 0 \/ calls.news > 0) => member \in AllowedStatuses

\* C2: the gate is fail-closed: the decision is Allowed exactly when the
\* lookup succeeded with status member, creator or administrator (Denied
\* when it raised or gave any other status), and after Denied the handler
\* sends nothing but the join notice, calls no pipeline and returns.
C2_FailClosed ==
    /\ is_sub # "unset" => (is_sub = "yes" <=> member \in AllowedStatuses)
    /\ is_sub = "no" =>
          /\ pc \in {"rh_gate", "done"}
          /\ flow = "none" /\ calls = [price |-> 0, news |-> 0] /\ loading = "none"
          /\ Len(sent) <= 1 /\ Kinds(sent) \subseteq {"join"}
          /\ (pc = "done" /\ ~failed) => sent = <<Reply("join", <<>>)>>

\* the membership lookup raised, and the update ended with the join notice
C2_Witness ==
    /\ pc = "done" /\ member = "Raised" /\ is_sub = "no"
    /\ sent = <<Reply("join", <<>>)>>

HasNewsKeyword(t) == Contains(t, AKHBAR)

HasPriceKeyword(t) ==
    \E n \in 1..Len(KEYWORD_TRIGGER_LIST) : Contains(t, KEYWORD_TRIGGER_LIST[n])

\* C9: keyword_handler routes a text with a news keyword to the news flow,
\* price keywords or not; a text with a price keyword and no news keyword to
\* the price flow; any other text to the unrecognized reply and no pipeline;
\* and no text to both flows.
C9_KeywordRouting ==
    Dispatch(text) = "kw" =>
        /\ pc = "kw" => flow = "none"
        /\ (pc \notin {"idle", "kw"} /\ HasNewsKeyword(text)) => flow = "news"
        /\ (pc \notin {"idle", "kw"} /\ ~HasNewsKeyword(text) /\ HasPriceKeyword(text))
              => flow = "price"
        /\ (pc \notin {"idle", "kw"} /\ ~HasNewsKeyword(text) /\ ~HasPriceKeyword(text))
              => /\ flow = "none" /\ pc = "done"
                 /\ Kinds(sent) \subseteq {"unrecognized"}
        /\ flow = "news" => calls.price = 0 /\ Kinds(sent) \cap {"loading_price", "price_result"} = {}
        /\ flow = "price" => calls.news = 0 /\ Kinds(sent) \cap {"loading_news", "news_result"} = {}
        /\ flow = "none" => calls = [price |-> 0, news |-> 0]

\* a text with a news keyword and a price keyword got the news digest
C9_Witness ==
    /\ pc = "done" /\ Dispatch(text) = "kw"
    /\ HasNewsKeyword(text) /\ HasPriceKeyword(text)
    /\ flow = "news" /\ "news_result" \in Kinds(sent)

C10_Order ==
    /\ (calls.price > 0 \/ calls.news > 0) => loading # "none"
    /\ deletes <= 1
    /\ deletes = 1 => pc = "done" /\ calls.price + calls.news = 1
    /\ (pc = "done" /\ loading # "none") => deletes = 1
    /\ loading \in {"deleted", "delete_failed"} <=> deletes = 1

C10_DeleteStep ==
    deletes' = deletes + 1 =>
        /\ sent' = sent /\ pc' = "done"
        /\ exc' = "escaped" => exc = "pending"

\* C10: the loading indicator is shown before the pipeline is invoked; on
\* every path after the pipeline has finished (result, empty notice, pipeline
\* failure, failure of the reply) its deletion is eventually attempted,
\* exactly once and not before; a failing deletion sends no reply and raises
\* nothing.
C10_LoadingIndicator ==
    /\ []C10_Order
    /\ [][C10_DeleteStep]_vars
    /\ (loading = "shown") ~> (deletes = 1)

\* the pipeline failed, the error reply was sent, the deletion failed
C10_Witness ==
    /\ pc = "done" /\ exc = "handled" /\ loading = "delete_failed" /\ deletes = 1
    /\ Kinds(sent) \cap {"price_error", "news_error"} # {}

\* the entry is there and carries both sub-fields
HasFields(entry) == ~entry.absent /\ {"p", "ts"} \subseteq entry.keys

\* a document has been fetched and every configured key has both sub-fields
CompleteDoc == idx > 0 /\ \A k \in JsonKeys : HasFields(current[k])

IncompleteDoc == idx > 0 /\ \E k \in JsonKeys : ~HasFields(current[k])

\* C3: when a configured key is absent from the document or its entry lacks
\* p or ts, fetch_prices raises and returns nothing: no snapshot reaches
\* cmd_price, no price result is rendered, and the handler ends in its
\* except branch, whichever key is the missing one.
C3_NoPartialSnapshot ==
    IncompleteDoc =>
        /\ prices = <<>>
        /\ pc # "cp_render"
        /\ "price_result" \notin Kinds(sent)
        /\ pc \in {"cp_finally", "done"} => exc \in {"handled", "pending", "escaped"}

\* the last key was the missing one: two quotes were computed, none returned
C3_Witness ==
    /\ pc = "done" /\ IncompleteDoc
    /\ idx = Len(PRICE_KEYS) /\ Len(result) = Len(PRICE_KEYS) - 1
    /\ prices = <<>>
    /\ Kinds(sent) = {"loading_price", "price_error"}

\* the per-source contribution: nothing from a failing feed; from a
\* succeeding one the extracted items of its first HEADLINES_PER_SOURCE
\* <item> elements
Contribution(n) ==
    LET source == NEWS_FEEDS[n]
    IN  IF feeds[source].status # "ok" THEN <<>>
        ELSE ItemLoop(source, Take(feeds[source].items, HEADLINES_PER_SOURCE))

RECURSIVE Contributions(_)
Contributions(n) ==
    IF n = 0 THEN <<>> ELSE Contributions(n - 1) \o Contribution(n)

\* C4: whichever feeds fail (GET, status or parse), fetch_news raises nothing
\* and returns the headlines of the succeeding feeds in declaration order, at
\* most HEADLINES_PER_SOURCE from each and none from a failing feed.
C4_SourceIsolation ==
    /\ exc = "none"
    /\ \A n \in 1..Len(NEWS_FEEDS) : Len(Contribution(n)) <= HEADLINES_PER_SOURCE
    /\ pc = "fn_loop" => headlines = Contributions(src - 1)
    /\ pc = "cn_render" => items = Contributions(Len(NEWS_FEEDS))

\* the middle feed failed to parse; the digest is the other two feeds'
C4_Witness ==
    /\ pc = "cn_render"
    /\ feeds["Tasnim"].status = "ok"
    /\ feeds["ISNA"].status = "parse_error"
    /\ feeds["IRNA"].status = "ok"
    /\ Len(Contribution(1)) = HEADLINES_PER_SOURCE /\ Len(Contribution(3)) > 0
    /\ items = Contribution(1) \o Contribution(3)

\* the items of a feed whose title has an economic keyword
Matching(its) ==
    {n \in 1..Len(its) :
        its[n].has_title /\ ContainsAny(Strip(its[n].title), economy_keywords)}

\* C5: when the IRNA feed holds at least HEADLINES_PER_SOURCE items with a
\* matching title, anywhere in the document, exactly HEADLINES_PER_SOURCE
\* IRNA headlines are in the digest.
C5_FilterThenLimit ==
    (/\ pc = "cn_render"
     /\ feeds["IRNA"].status = "ok"
     /\ \A n \in 1..Len(feeds["IRNA"].items) :
           feeds["IRNA"].items[n] \in {ItemM("IRNA"), ItemN("IRNA")}
     /\ Cardinality(Matching(feeds["IRNA"].items)) >= HEADLINES_PER_SOURCE)
        => Cardinality({n \in 1..Len(items) : items[n].link = <<"IRNA", "m">>})
               = HEADLINES_PER_SOURCE

\* C6: for a document with every configured key and both sub-fields,
\* whatever the price strings, fetch_prices returns a snapshot with the
\* configured labels in configured order and no negative value.
C6_NonNegativeSnapshot ==
    (CompleteDoc /\ pc \in {"cp_render", "cp_except", "cp_finally", "done"}) =>
        /\ Len(prices) = Len(PRICE_KEYS)
        /\ \A n \in 1..Len(prices) :
              /\ prices[n].label = PRICE_KEYS[n].label
              /\ ~Negative(prices[n].num)

\* C7: for a document with every configured key and both sub-fields, whatever
\* mix of malformed and well-formed price and timestamp strings it carries,
\* a price request whose replies go through ends with the price result and
\* without the error reply.
C7_ParseErrorsRecovered ==
    (/\ CompleteDoc
     /\ \A k \in JsonKeys : current[k].p \in {P_1234560, P_1950_55, P_Garbage}
     /\ pc = "done" /\ ~failed)
        => /\ "price_result" \in Kinds(sent)
           /\ "price_error" \notin Kinds(sent)

\* C8: every headline fetch_news returns has a non-empty title and a
\* non-empty link.
C8_NonEmptyHeadlines ==
    pc = "cn_render" =>
        \A n \in 1..Len(items) : items[n].title # <<>> /\ items[n].link # <<>>

=============================================================================
